---------------------------- MODULE Spec2Model ----------------------------
(***************************************************************************)
(* Model of the repository collector:                                      *)
(*   - the marker-file classifier  (github.HasDockerfile, isDockerfile)    *)
(*   - the repository store        (database.InsertRepository)             *)
(*   - the session-progress store  (database.SaveSearchState, ...)         *)
(*   - the collection loop         (cmd/collect_github_repos main)         *)
(*   - the resumable session orchestrator described in the design          *)
(*     document, layered on the session-progress store                     *)
(***************************************************************************)
EXTENDS Integers, Sequences, FiniteSets, TLC

(***************************************************************************)
(* Go values.  A Go string is a sequence of characters where its content   *)
(* is inspected (file names, nameWithOwner) and an opaque TLA+ string where *)
(* it is only stored and compared (URLs, cursors, session ids).  A nilable *)
(* *string / SQL NULLable column is Nil or Some(s).                        *)
(***************************************************************************)
Nil == <<>>

Some(s) == <<s>>

Deref(p) == p[1]

Range(s) == {s[i] : i \in 1..Len(s)}

\* All sequences over S of length 0..n.
SeqsUpTo(S, n) == UNION {[1..k -> S] : k \in 0..n}

(***************************************************************************)
(* strings.ToLower / strings.Contains / strings.Split on character         *)
(* sequences.                                                              *)
(***************************************************************************)
UpperCase == <<"A","B","C","D","E","F","G","H","I","J","K","L","M",
               "N","O","P","Q","R","S","T","U","V","W","X","Y","Z">>

LowerCase == <<"a","b","c","d","e","f","g","h","i","j","k","l","m",
               "n","o","p","q","r","s","t","u","v","w","x","y","z">>

ToLowerChar(c) ==
    IF \E i \in 1..Len(UpperCase) : UpperCase[i] = c
    THEN LowerCase[CHOOSE i \in 1..Len(UpperCase) : UpperCase[i] = c]
    ELSE c

ToLower(s) == [i \in 1..Len(s) |-> ToLowerChar(s[i])]

Contains(s, substr) ==
    \E i \in 0..(Len(s) - Len(substr)) : SubSeq(s, i + 1, i + Len(substr)) = substr

\* Number of parts strings.Split(s, sep) returns for a one-character sep.
RECURSIVE SplitParts(_, _)
SplitParts(s, sep) ==
    IF \A i \in 1..Len(s) : s[i] # sep
    THEN <<s>>
    ELSE LET k == CHOOSE i \in 1..Len(s) :
                     s[i] = sep /\ \A j \in 1..(i - 1) : s[j] # sep
         IN  <<SubSeq(s, 1, k - 1)>> \o SplitParts(SubSeq(s, k + 1, Len(s)), sep)

(***************************************************************************)
(* The marker-file classifier.                                             *)
(***************************************************************************)
dockerfile == <<"d","o","c","k","e","r","f","i","l","e">>

isDockerfile_CaseSensitive(filename) == Contains(filename, dockerfile)

isDockerfile(filename) ==
    LET lowerName == ToLower(filename)
    IN  Contains(lowerName, dockerfile)

\* File names of the synthetic tree snapshots.
N_Dockerfile_dev == <<"D","o","c","k","e","r","f","i","l","e",".","d","e","v">>

N_docker == <<"d","o","c","k","e","r">>

N_src == <<"s","r","c">>

N_my_dockerfile == <<"m","y",".","d","o","c","k","e","r","f","i","l","e">>

N_main_go == <<"m","a","i","n",".","g","o">>

N_DOCKERFILE == <<"D","O","C","K","E","R","F","I","L","E">>

RootNames == {N_Dockerfile_dev, N_docker, N_src}

SubNames == {N_my_dockerfile, N_main_go}

DeepNames == {N_DOCKERFILE, N_main_go}

EntryTypes == {"blob", "tree"}

MaxRootEntries == 2

MaxSubEntries == 1

MaxDeepEntries == 1

\* A repository's default-branch tree, three levels deep.  Entries of the
\* third level exist in the repository but are not selected by the query.
DeepEntries == [Name : DeepNames, Type : {"blob"}]

SubEntries ==
    [Name : SubNames, Type : {"blob"}, Entries : {<<>>}]
      \cup [Name : SubNames, Type : {"tree"},
            Entries : SeqsUpTo(DeepEntries, MaxDeepEntries)]

RootEntries ==
    [Name : RootNames, Type : EntryTypes, Entries : SeqsUpTo(SubEntries, MaxSubEntries)]

Trees == SeqsUpTo(RootEntries, MaxRootEntries)

\* The response struct GetRepositoryFilesQuery is decoded into: the root
\* entries with their name, type and object.entries (name, type).
GetRepositoryFilesQuery(tree) ==
    [i \in 1..Len(tree) |->
        [Name   |-> tree[i].Name,
         Type   |-> tree[i].Type,
         Object |-> [Entries |->
                        [j \in 1..Len(tree[i].Entries) |->
                            [Name |-> tree[i].Entries[j].Name,
                             Type |-> tree[i].Entries[j].Type]]]]]

\* The inner loop over entry.Object.Entries, from position j.
RECURSIVE ScanSubEntries(_, _)
ScanSubEntries(subEntries, j) ==
    IF j > Len(subEntries) THEN FALSE
    ELSE IF isDockerfile(subEntries[j].Name) THEN TRUE
    ELSE ScanSubEntries(subEntries, j + 1)

\* The outer loop over the root entries, from position i.
RECURSIVE ScanEntries_NoTypeCheck(_, _)
ScanEntries_NoTypeCheck(entries, i) ==
    IF i > Len(entries) THEN FALSE
    ELSE IF isDockerfile(entries[i].Name) THEN TRUE
    ELSE IF ScanSubEntries(entries[i].Object.Entries, 1) THEN TRUE
    ELSE ScanEntries_NoTypeCheck(entries, i + 1)

RECURSIVE ScanEntries(_, _)
ScanEntries(entries, i) ==
    IF i > Len(entries) THEN FALSE
    ELSE IF isDockerfile(entries[i].Name) THEN TRUE
    ELSE IF entries[i].Type = "tree" /\ ScanSubEntries(entries[i].Object.Entries, 1)
         THEN TRUE
    ELSE ScanEntries(entries, i + 1)

\* HasDockerfile on a successful query: (bool, nil).
HasDockerfile(tree) ==
    LET response == GetRepositoryFilesQuery(tree)
    IN  ScanEntries(response, 1)

(***************************************************************************)
(* State.                                                                  *)
(***************************************************************************)
VARIABLES
    \* -- the database ----------------------------------------------------
    repositories,      \* rows of table repositories
    repoSeq,           \* last value of the SERIAL sequence of repositories.id
    search_states,     \* rows of table search_states
    stateSeq,          \* last value of the SERIAL sequence of search_states.id
    clock,             \* CURRENT_TIMESTAMP of the last executed statement
    \* -- a direct call of a store function or of the classifier ----------
    call,              \* the last call: operation, argument, error, result
    tree,              \* classifier call: the tree snapshot queried
    hasDockerfileRet,  \* classifier call: Nil before the call, else Some(bool)
    \* -- the collector process (main) ------------------------------------
    pc,                \* position of the process
    currentCursor,     \* local currentCursor
    result,            \* local result (the page being processed)
    idx,               \* index of the range loop over result.Repositories
    iter,              \* locals of the last loop iteration
    fetchLog,          \* every GetNextRepositories call made: cursor and answer
    \* -- the session orchestrator -----------------------------------------
    session,           \* in-memory session-progress record of the run
    itemCap,           \* configured item cap (0: none)
    runs,              \* number of orchestrator runs started
    report,            \* what the run reported on exit
    \* -- record of observations -------------------------------------------
    upserted           \* per URL: Nil or Some(record of the last successful upsert)

dbVars == <<repositories, repoSeq, search_states, stateSeq, clock>>

classifierVars == <<tree, hasDockerfileRet>>

mainVars == <<pc, currentCursor, result, idx, iter, fetchLog>>

sessionVars == <<session, itemCap, runs, report>>

vars == <<repositories, repoSeq, search_states, stateSeq, clock, call, tree,
          hasDockerfileRet, pc, currentCursor, result, idx, iter, fetchLog,
          session, itemCap, runs, report, upserted>>

(***************************************************************************)
(* Input domains.                                                          *)
(***************************************************************************)
URLs == {"https://github.com/o/a", "https://github.com/o/b"}

FN_o_a == <<"o","/","a">>

FN_o_b == <<"o","/","b">>

FullNames == {FN_o_a, FN_o_b}

StarCounts == {1, 2}

Languages == {Nil, Some("Go")}

\* database.Repository values passed to InsertRepository.
Repositories ==
    [URL : URLs, NameWithOwner : FullNames, StargazerCount : StarCounts,
     PrimaryLanguage : Languages, HasDockerfile : BOOLEAN]

SessionIDs == {"s1", "s2"}

Queries == {"docker sort:stars-desc in:readme", "k8s"}

SavedTotals == {0, 1, 2}

\* Continuation tokens: Tokens[k] is the end cursor of page k.
Tokens == <<"c1", "c2", "c3", "c4", "c5">>

MaxInserts == 3

MaxSaves == 2

\* database.SearchState values passed to SaveSearchState.
SearchStates ==
    [SessionID : SessionIDs, Query : Queries,
     CurrentCursor : {Nil, Some(Tokens[1])},
     TotalFetched : SavedTotals, IsCompleted : BOOLEAN]

(***************************************************************************)
(* database.InsertRepository: INSERT ... ON CONFLICT (url) DO UPDATE.      *)
(* rows: the table; id: nextval of the id sequence; now: CURRENT_TIMESTAMP.*)
(***************************************************************************)
NewRepositoryRow(repo, id, now) ==
    [id               |-> id,
     url              |-> repo.URL,
     name_with_owner  |-> repo.NameWithOwner,
     stargazer_count  |-> repo.StargazerCount,
     primary_language |-> repo.PrimaryLanguage,
     has_dockerfile   |-> repo.HasDockerfile,
     created_at       |-> now,
     updated_at       |-> now]

\* Variant: ON CONFLICT (url) DO NOTHING.
InsertRepository_DoNothing(rows, repo, id, now) ==
    IF \E r \in rows : r.url = repo.URL
    THEN rows
    ELSE rows \cup {NewRepositoryRow(repo, id, now)}

\* Variant: no conflict target, every call inserts a row.
InsertRepository_AlwaysInsert(rows, repo, id, now) ==
    rows \cup {NewRepositoryRow(repo, id, now)}

\* Variant: the conflicting row is deleted and a new row inserted in its place.
InsertRepository_ReplaceRow(rows, repo, id, now) ==
    {r \in rows : r.url # repo.URL} \cup {NewRepositoryRow(repo, id, now)}

InsertRepository(rows, repo, id, now) ==
    IF \E r \in rows : r.url = repo.URL
    THEN {IF r.url = repo.URL
          THEN [r EXCEPT !.name_with_owner  = repo.NameWithOwner,
                         !.stargazer_count  = repo.StargazerCount,
                         !.primary_language = repo.PrimaryLanguage,
                         !.has_dockerfile   = repo.HasDockerfile,
                         !.updated_at       = now]
          ELSE r : r \in rows}
    ELSE rows \cup {NewRepositoryRow(repo, id, now)}

RowsOf(rows, url) == {r \in rows : r.url = url}

(***************************************************************************)
(* database.SaveSearchState / LoadSearchState / DeleteSearchState.         *)
(***************************************************************************)
NewSearchStateRow(state, id, now) ==
    [id             |-> id,
     session_id     |-> state.SessionID,
     query          |-> state.Query,
     current_cursor |-> state.CurrentCursor,
     total_fetched  |-> state.TotalFetched,
     is_completed   |-> state.IsCompleted,
     created_at     |-> now,
     updated_at     |-> now]

\* Variant: the conflict branch does not write total_fetched back.
SaveSearchState_ResetTotal(rows, state, id, now) ==
    IF \E r \in rows : r.session_id = state.SessionID
    THEN {IF r.session_id = state.SessionID
          THEN [r EXCEPT !.current_cursor = state.CurrentCursor,
                         !.total_fetched  = 0,
                         !.is_completed   = state.IsCompleted,
                         !.updated_at     = now]
          ELSE r : r \in rows}
    ELSE rows \cup {NewSearchStateRow(state, id, now)}

\* Variant: the conflict branch does not write is_completed back.
SaveSearchState_KeepCompleted(rows, state, id, now) ==
    IF \E r \in rows : r.session_id = state.SessionID
    THEN {IF r.session_id = state.SessionID
          THEN [r EXCEPT !.current_cursor = state.CurrentCursor,
                         !.total_fetched  = state.TotalFetched,
                         !.updated_at     = now]
          ELSE r : r \in rows}
    ELSE rows \cup {NewSearchStateRow(state, id, now)}

\* Variant: the conflict branch does not write current_cursor back.
SaveSearchState_KeepCursor(rows, state, id, now) ==
    IF \E r \in rows : r.session_id = state.SessionID
    THEN {IF r.session_id = state.SessionID
          THEN [r EXCEPT !.total_fetched  = state.TotalFetched,
                         !.is_completed   = state.IsCompleted,
                         !.updated_at     = now]
          ELSE r : r \in rows}
    ELSE rows \cup {NewSearchStateRow(state, id, now)}

\* Variant: the conflict branch also sets query = EXCLUDED.query.
SaveSearchState_UpdateQuery(rows, state, id, now) ==
    IF \E r \in rows : r.session_id = state.SessionID
    THEN {IF r.session_id = state.SessionID
          THEN [r EXCEPT !.query          = state.Query,
                         !.current_cursor = state.CurrentCursor,
                         !.total_fetched  = state.TotalFetched,
                         !.is_completed   = state.IsCompleted,
                         !.updated_at     = now]
          ELSE r : r \in rows}
    ELSE rows \cup {NewSearchStateRow(state, id, now)}

\* Variant: ON CONFLICT (session_id) DO NOTHING.
SaveSearchState_DoNothing(rows, state, id, now) ==
    IF \E r \in rows : r.session_id = state.SessionID
    THEN rows
    ELSE rows \cup {NewSearchStateRow(state, id, now)}

SaveSearchState(rows, state, id, now) ==
    IF \E r \in rows : r.session_id = state.SessionID
    THEN {IF r.session_id = state.SessionID
          THEN [r EXCEPT !.current_cursor = state.CurrentCursor,
                         !.total_fetched  = state.TotalFetched,
                         !.is_completed   = state.IsCompleted,
                         !.updated_at     = now]
          ELSE r : r \in rows}
    ELSE rows \cup {NewSearchStateRow(state, id, now)}

\* sql.NullString scanned from a nullable column.
NullString(column) ==
    IF column = Nil THEN [String |-> "", Valid |-> FALSE]
    ELSE [String |-> Deref(column), Valid |-> TRUE]

\* Variant: the scanned cursor is never copied into the result.
ScanSearchState_NoCursor(row) ==
    [ID            |-> row.id,
     SessionID     |-> row.session_id,
     Query         |-> row.query,
     CurrentCursor |-> Nil,
     TotalFetched  |-> row.total_fetched,
     IsCompleted   |-> row.is_completed,
     CreatedAt     |-> row.created_at,
     UpdatedAt     |-> row.updated_at]

\* Variant: is_completed is not scanned, IsCompleted keeps its zero value.
ScanSearchState_NotCompleted(row) ==
    [ID            |-> row.id,
     SessionID     |-> row.session_id,
     Query         |-> row.query,
     CurrentCursor |-> IF NullString(row.current_cursor).Valid
                       THEN Some(NullString(row.current_cursor).String) ELSE Nil,
     TotalFetched  |-> row.total_fetched,
     IsCompleted   |-> FALSE,
     CreatedAt     |-> row.created_at,
     UpdatedAt     |-> row.updated_at]

\* Variant: CurrentCursor always points at the scanned string, valid or not.
ScanSearchState_AlwaysCursor(row) ==
    [ID            |-> row.id,
     SessionID     |-> row.session_id,
     Query         |-> row.query,
     CurrentCursor |-> Some(NullString(row.current_cursor).String),
     TotalFetched  |-> row.total_fetched,
     IsCompleted   |-> row.is_completed,
     CreatedAt     |-> row.created_at,
     UpdatedAt     |-> row.updated_at]

ScanSearchState(row) ==
    LET currentCursor_ == NullString(row.current_cursor)
    IN  [ID            |-> row.id,
         SessionID     |-> row.session_id,
         Query         |-> row.query,
         CurrentCursor |-> IF currentCursor_.Valid
                           THEN Some(currentCursor_.String) ELSE Nil,
         TotalFetched  |-> row.total_fetched,
         IsCompleted   |-> row.is_completed,
         CreatedAt     |-> row.created_at,
         UpdatedAt     |-> row.updated_at]

\* (*SearchState, nil): Nil for sql.ErrNoRows, else Some(state).
LoadSearchState(rows, sessionID) ==
    IF \E r \in rows : r.session_id = sessionID
    THEN Some(ScanSearchState(CHOOSE r \in rows : r.session_id = sessionID))
    ELSE Nil

\* Variant: DELETE without the WHERE clause.
DeleteSearchState_AllRows(rows, sessionID) == {}

DeleteSearchState(rows, sessionID) == {r \in rows : r.session_id # sessionID}

StatesOf(rows, sessionID) == {r \in rows : r.session_id = sessionID}

(***************************************************************************)
(* Values of the parts of the state that a specification leaves alone.     *)
(***************************************************************************)
NoCall == [op |-> "none"]

NoResult ==
    [Repositories |-> <<>>, PageInfo |-> [HasNextPage |-> FALSE, EndCursor |-> Nil]]

NoIter == [kind |-> "none"]

NoSession == [SessionID |-> ""]

EmptyDB ==
    /\ repositories = {}
    /\ repoSeq = 0
    /\ search_states = {}
    /\ stateSeq = 0
    /\ clock = 0

NoClassifierCall ==
    /\ tree = <<>>
    /\ hasDockerfileRet = Nil

MainOff ==
    /\ pc = "off"
    /\ currentCursor = ""
    /\ result = NoResult
    /\ idx = 0
    /\ iter = NoIter
    /\ fetchLog = <<>>

OrchestratorOff ==
    /\ session = NoSession
    /\ itemCap = 0
    /\ runs = 0
    /\ report = Nil

NothingUpserted == upserted = [u \in URLs |-> Nil]

(***************************************************************************)
(* SpecClassifier: HasDockerfile applied to every tree snapshot.           *)
(***************************************************************************)
InitClassifier ==
    /\ EmptyDB /\ MainOff /\ OrchestratorOff /\ NothingUpserted
    /\ call = NoCall
    /\ tree \in Trees
    /\ hasDockerfileRet = Nil

CallHasDockerfile ==
    /\ hasDockerfileRet = Nil
    /\ hasDockerfileRet' = Some(HasDockerfile(tree))
    /\ UNCHANGED <<dbVars, mainVars, sessionVars, call, tree, upserted>>

SpecClassifier == InitClassifier /\ [][CallHasDockerfile]_vars

(***************************************************************************)
(* SpecRepositories: any sequence of InsertRepository calls.               *)
(***************************************************************************)
InitStore ==
    /\ EmptyDB /\ MainOff /\ OrchestratorOff /\ NothingUpserted /\ NoClassifierCall
    /\ call = NoCall

\* db.Exec either fails (err # nil, nothing written) or runs the statement.
CallInsertRepository ==
    /\ repoSeq < MaxInserts
    /\ \E repo \in Repositories, err \in BOOLEAN :
         /\ call' = [op |-> "InsertRepository", arg |-> repo, err |-> err,
                     before |-> RowsOf(repositories, repo.URL)]
         /\ IF err
            THEN UNCHANGED <<repositories, repoSeq, clock, upserted>>
            ELSE /\ repositories' =
                        InsertRepository(repositories, repo, repoSeq + 1, clock + 1)
                 /\ repoSeq' = repoSeq + 1
                 /\ clock' = clock + 1
                 /\ upserted' = [upserted EXCEPT ![repo.URL] = Some(repo)]
    /\ UNCHANGED <<search_states, stateSeq, classifierVars, mainVars, sessionVars>>

SpecRepositories == InitStore /\ [][CallInsertRepository]_vars

(***************************************************************************)
(* SpecSearchStates: any sequence of calls of the session-progress store.  *)
(***************************************************************************)
CallSaveSearchState ==
    /\ stateSeq < MaxSaves
    /\ \E state \in SearchStates, err \in BOOLEAN :
         /\ call' = [op |-> "SaveSearchState", arg |-> state, err |-> err,
                     before |-> StatesOf(search_states, state.SessionID)]
         /\ IF err
            THEN UNCHANGED <<search_states, stateSeq, clock>>
            ELSE /\ search_states' =
                        SaveSearchState(search_states, state, stateSeq + 1, clock + 1)
                 /\ stateSeq' = stateSeq + 1
                 /\ clock' = clock + 1
    /\ UNCHANGED <<repositories, repoSeq, classifierVars, mainVars, sessionVars,
                   upserted>>

CallLoadSearchState ==
    /\ \E sessionID \in SessionIDs, err \in BOOLEAN :
         call' = [op |-> "LoadSearchState", arg |-> sessionID, err |-> err,
                  ret |-> IF err THEN Nil
                          ELSE LoadSearchState(search_states, sessionID)]
    /\ UNCHANGED <<dbVars, classifierVars, mainVars, sessionVars, upserted>>

CallDeleteSearchState ==
    /\ \E sessionID \in SessionIDs, err \in BOOLEAN :
         /\ call' = [op |-> "DeleteSearchState", arg |-> sessionID, err |-> err,
                     before |-> StatesOf(search_states, sessionID)]
         /\ IF err
            THEN UNCHANGED search_states
            ELSE search_states' = DeleteSearchState(search_states, sessionID)
    /\ UNCHANGED <<repositories, repoSeq, stateSeq, clock, classifierVars, mainVars,
                   sessionVars, upserted>>

NextSearchStates ==
    \/ CallSaveSearchState
    \/ CallLoadSearchState
    \/ CallDeleteSearchState

SpecSearchStates == InitStore /\ [][NextSearchStates]_vars

(***************************************************************************)
(* The search API as the collector sees it.                                *)
(*                                                                         *)
(* The result set is a chain of at most MaxPages pages; the page after     *)
(* cursor "" (or no cursor) is page 1 and the page after Tokens[k] is page *)
(* k + 1.  What a page holds is the upstream's choice at the time of the   *)
(* fetch: up to MaxBatch repositories, hasNextPage, and an endCursor that  *)
(* is null or the page's token.  The last page reports hasNextPage=false.  *)
(***************************************************************************)
MaxPages == 3

MaxBatch == 2

FN_oa == <<"o","a">>

NameOf(url) == IF url = "https://github.com/o/a" THEN FN_o_a ELSE FN_o_b

LanguageOf(url) ==
    IF url = "https://github.com/o/a" THEN Some([Name |-> "Go"]) ELSE Nil

\* github.Repository values of a search page: the two repositories with any
\* star count, and one node whose nameWithOwner has no owner part.
Candidates ==
    {[URL |-> u, FullName |-> NameOf(u), StargazerCount |-> n,
      PrimaryLanguage |-> LanguageOf(u)] : u \in URLs, n \in StarCounts}
      \cup {[URL |-> "https://github.com/o/a", FullName |-> FN_oa,
             StargazerCount |-> 1, PrimaryLanguage |-> Nil]}

PageAfter(cursor) ==
    IF cursor = "" THEN 1
    ELSE 1 + (CHOOSE k \in 1..Len(Tokens) : Tokens[k] = cursor)

\* The RepositoriesResponse values the upstream can return for page k.
Responses(k) ==
    [Repositories : SeqsUpTo(Candidates, MaxBatch),
     PageInfo : [HasNextPage : IF k >= MaxPages THEN {FALSE} ELSE BOOLEAN,
                 EndCursor : {Nil, Some(Tokens[k])}]]

\* Variant: every request asks for the first page.
GetNextRepositories_FromStart(currentCursor_) ==
    [query |-> "docker sort:stars-desc in:readme",
     first |-> 100,
     after |-> Some("")]

\* GetNextRepositories builds the query variables from its cursor argument.
\* The variables are sent as JSON: a Go string, empty or not, is sent as a
\* JSON string (Some), never as null (Nil).
GetNextRepositories(currentCursor_) ==
    [query |-> "docker sort:stars-desc in:readme",
     first |-> 100,
     after |-> Some(currentCursor_)]

\* Tree snapshots the classifier meets in the collection loop.
T_marker_in_directory ==
    <<[Name |-> N_src, Type |-> "tree",
       Entries |-> <<[Name |-> N_my_dockerfile, Type |-> "blob", Entries |-> <<>>]>>]>>

T_no_marker ==
    <<[Name |-> N_docker, Type |-> "blob", Entries |-> <<>>]>>

\* What client.HasDockerfile returns: (false, err) when the query fails,
\* else (HasDockerfile(tree), nil).
ClassifierReturns ==
    {[value |-> FALSE, err |-> TRUE]}
      \cup {[value |-> HasDockerfile(t), err |-> FALSE] :
                t \in {T_marker_in_directory, T_no_marker}}

(***************************************************************************)
(* The collector process: main of cmd/collect_github_repos.                *)
(*   pc = "fetch"  about to call GetNextRepositories (top of the for loop) *)
(*   pc = "range"  in the range loop over result.Repositories              *)
(*   pc = "done"   after "Collection completed!"                           *)
(*   pc = "fatal"  after log.Fatal                                         *)
(***************************************************************************)
InitMain ==
    /\ EmptyDB /\ OrchestratorOff /\ NothingUpserted /\ NoClassifierCall
    /\ call = NoCall
    /\ pc = "fetch"
    /\ currentCursor = ""
    /\ result = NoResult
    /\ idx = 0
    /\ iter = NoIter
    /\ fetchLog = <<>>

\* GetNextRepositories returns a page.
FetchPage ==
    /\ pc = "fetch"
    /\ PageAfter(currentCursor) <= MaxPages
    /\ \E response \in Responses(PageAfter(currentCursor)) :
         /\ result' = response
         /\ fetchLog' = Append(fetchLog,
                               [request |-> GetNextRepositories(currentCursor),
                                ok |-> TRUE, pageInfo |-> response.PageInfo])
    /\ idx' = 1
    /\ pc' = "range"
    /\ UNCHANGED <<dbVars, call, classifierVars, currentCursor, iter, sessionVars,
                   upserted>>

\* GetNextRepositories returns an error: log.Fatal.
FetchFails ==
    /\ pc = "fetch"
    /\ PageAfter(currentCursor) <= MaxPages
    /\ fetchLog' = Append(fetchLog,
                          [request |-> GetNextRepositories(currentCursor),
                           ok |-> FALSE, pageInfo |-> NoResult.PageInfo])
    /\ pc' = "fatal"
    /\ UNCHANGED <<dbVars, call, classifierVars, currentCursor, result, idx, iter,
                   sessionVars, upserted>>

\* The database.Repository built from a search node and the marker flag.
DbRepo(repo, hasDockerfile) ==
    [URL             |-> repo.URL,
     NameWithOwner   |-> repo.FullName,
     StargazerCount  |-> repo.StargazerCount,
     HasDockerfile   |-> hasDockerfile,
     PrimaryLanguage |-> IF repo.PrimaryLanguage # Nil
                         THEN Some(Deref(repo.PrimaryLanguage).Name) ELSE Nil]

\* The marker flags stored for url when an iteration starts: none or one.
StoredFlags(rows, url) == {r.has_dockerfile : r \in RowsOf(rows, url)}

\* Variant: a classification error is taken as "marker found".
MarkerFlag_TrueOnError(classified) ==
    IF classified.err THEN TRUE ELSE classified.value

\* The marker flag the loop stores, from what HasDockerfile returned.
MarkerFlag(classified) ==
    IF classified.err THEN FALSE ELSE classified.value

\* Variant: a classification error skips the repository (continue).
ClassifyAndSave_SkipOnClassifyError(repo, classified, insertErr) ==
    /\ iter' = [kind |-> "handled", repo |-> repo,
                hasDockerfile |-> MarkerFlag(classified),
                classifyErr |-> classified.err, insertErr |-> insertErr,
                flagBefore |-> StoredFlags(repositories, repo.URL)]
    /\ IF insertErr \/ classified.err
       THEN UNCHANGED <<repositories, repoSeq, clock, upserted>>
       ELSE /\ repositories' =
                   InsertRepository(repositories,
                                    DbRepo(repo, MarkerFlag(classified)),
                                    repoSeq + 1, clock + 1)
            /\ repoSeq' = repoSeq + 1
            /\ clock' = clock + 1
            /\ upserted' =
                   [upserted EXCEPT ![repo.URL] =
                        Some(DbRepo(repo, MarkerFlag(classified)))]

\* Variant: a failed save is tried again, and the second try succeeds.
ClassifyAndSave_RetryOnInsertError(repo, classified, insertErr) ==
    /\ iter' = [kind |-> "handled", repo |-> repo,
                hasDockerfile |-> MarkerFlag(classified),
                classifyErr |-> classified.err, insertErr |-> insertErr,
                flagBefore |-> StoredFlags(repositories, repo.URL)]
    /\ repositories' =
           InsertRepository(repositories, DbRepo(repo, MarkerFlag(classified)),
                            repoSeq + 1, clock + 1)
    /\ repoSeq' = repoSeq + 1
    /\ clock' = clock + 1
    /\ upserted' =
           [upserted EXCEPT ![repo.URL] = Some(DbRepo(repo, MarkerFlag(classified)))]

\* One iteration for a well-formed repository: classify, build the record,
\* save it.
ClassifyAndSave(repo, classified, insertErr) ==
    /\ iter' = [kind |-> "handled", repo |-> repo,
                hasDockerfile |-> MarkerFlag(classified),
                classifyErr |-> classified.err, insertErr |-> insertErr,
                flagBefore |-> StoredFlags(repositories, repo.URL)]
    /\ IF insertErr
       THEN UNCHANGED <<repositories, repoSeq, clock, upserted>>
       ELSE /\ repositories' =
                   InsertRepository(repositories,
                                    DbRepo(repo, MarkerFlag(classified)),
                                    repoSeq + 1, clock + 1)
            /\ repoSeq' = repoSeq + 1
            /\ clock' = clock + 1
            /\ upserted' =
                   [upserted EXCEPT ![repo.URL] =
                        Some(DbRepo(repo, MarkerFlag(classified)))]

\* One iteration of the range loop over result.Repositories.
ProcessRepository ==
    /\ pc = "range"
    /\ idx <= Len(result.Repositories)
    /\ LET repo == result.Repositories[idx]
           parts == SplitParts(repo.FullName, "/")
       IN  IF Len(parts) # 2
           THEN /\ iter' = [kind |-> "skipped", repo |-> repo]
                /\ UNCHANGED <<repositories, repoSeq, clock, upserted>>
           ELSE \E classified \in ClassifierReturns, insertErr \in BOOLEAN :
                    ClassifyAndSave(repo, classified, insertErr)
    /\ idx' = idx + 1
    /\ UNCHANGED <<search_states, stateSeq, call, classifierVars, pc, currentCursor,
                   result, fetchLog, sessionVars>>

\* Variant: only a null end cursor ends the loop.
Exhausted_OnlyNullCursor(pageInfo) == pageInfo.EndCursor = Nil

\* The two break tests after the range loop.
Exhausted(pageInfo) ==
    IF ~pageInfo.HasNextPage THEN TRUE
    ELSE IF pageInfo.EndCursor = Nil THEN TRUE
    ELSE FALSE

\* result and the locals of the range loop go out of scope with the
\* iteration of the for loop that declared them.
LoopLocalsDropped ==
    /\ result' = NoResult
    /\ idx' = 0
    /\ iter' = NoIter

\* Variant: the page is left when its last repository is still to be handled.
EndOfPage_BeforeLastRepository ==
    /\ pc = "range"
    /\ idx >= Len(result.Repositories)
    /\ IF Exhausted(result.PageInfo)
       THEN /\ pc' = "done"
            /\ UNCHANGED currentCursor
       ELSE /\ currentCursor' = Deref(result.PageInfo.EndCursor)
            /\ pc' = "fetch"
    /\ LoopLocalsDropped
    /\ UNCHANGED <<dbVars, call, classifierVars, fetchLog, sessionVars, upserted>>

\* After the range loop: break, or move currentCursor and loop.
EndOfPage ==
    /\ pc = "range"
    /\ idx > Len(result.Repositories)
    /\ IF Exhausted(result.PageInfo)
       THEN /\ pc' = "done"
            /\ UNCHANGED currentCursor
       ELSE /\ currentCursor' = Deref(result.PageInfo.EndCursor)
            /\ pc' = "fetch"
    /\ LoopLocalsDropped
    /\ UNCHANGED <<dbVars, call, classifierVars, fetchLog, sessionVars, upserted>>

Next ==
    \/ FetchPage
    \/ FetchFails
    \/ ProcessRepository
    \/ EndOfPage

Spec == InitMain /\ [][Next]_vars

(***************************************************************************)
(* The session orchestrator of the design document (sections 4.5 and 7),   *)
(* on top of SaveSearchState / LoadSearchState, the classifier and         *)
(* InsertRepository.  One run at a time; a run that has exited may be      *)
(* followed by another invocation.                                         *)
(*   pc = "start"  no run yet                                              *)
(*   pc = "fetch"  about to fetch the page after session.CurrentCursor     *)
(*   pc = "range"  classifying and upserting the repositories of the page  *)
(*   pc = "exit"   the run has ended; report tells how                     *)
(***************************************************************************)
MaxRuns == 2

MaxSessions == 1

ItemCaps == {0, 3}

\* Search nodes of the pages the orchestrator meets.
SessionCandidates ==
    {c \in Candidates : /\ c.URL = "https://github.com/o/a"
                        /\ c.StargazerCount = 1
                        /\ c.FullName # FN_oa}

SessionResponses(k) ==
    [Repositories : SeqsUpTo(SessionCandidates, MaxBatch),
     PageInfo : [HasNextPage : IF k >= MaxPages THEN {FALSE} ELSE BOOLEAN,
                 EndCursor : {Nil, Some(Tokens[k])}]]

PageAfterCursor(cursor) == IF cursor = Nil THEN 1 ELSE PageAfter(Deref(cursor))

InitOrchestrator ==
    /\ EmptyDB /\ NothingUpserted /\ NoClassifierCall
    /\ call = NoCall
    /\ pc = "start"
    /\ currentCursor = ""
    /\ result = NoResult
    /\ idx = 0
    /\ iter = NoIter
    /\ fetchLog = <<>>
    /\ session = NoSession
    /\ itemCap = 0
    /\ runs = 0
    /\ report = Nil

\* The search_states table after the orchestrator saved its record.
SaveProgress(state) ==
    /\ search_states' = SaveSearchState(search_states, state, stateSeq + 1, clock + 1)
    /\ stateSeq' = stateSeq + 1

\* Start without a session identifier: mint one, save the initial record.
StartNew ==
    /\ pc \in {"start", "exit"}
    /\ runs < MaxRuns
    /\ Cardinality(search_states) < MaxSessions
    /\ \E id \in SessionIDs, query \in Queries, cap \in ItemCaps :
         /\ StatesOf(search_states, id) = {}
         /\ LET state == [SessionID |-> id, Query |-> query, CurrentCursor |-> Nil,
                          TotalFetched |-> 0, IsCompleted |-> FALSE]
            IN  /\ session' = state
                /\ SaveProgress(state)
         /\ itemCap' = cap
         /\ report' = Some([mode |-> "new", SessionID |-> id, outcome |-> "running",
                            total |-> 0])
    /\ clock' = clock + 1
    /\ runs' = runs + 1
    /\ pc' = "fetch"
    /\ UNCHANGED <<repositories, repoSeq, call, classifierVars, currentCursor, result,
                   idx, iter, fetchLog, upserted>>

\* Start with a session identifier (and a query the caller may also give).
Resume ==
    /\ pc \in {"start", "exit"}
    /\ runs < MaxRuns
    /\ \E id \in SessionIDs, override \in Queries, cap \in ItemCaps :
         LET loaded == LoadSearchState(search_states, id)
         IN  /\ itemCap' = cap
             /\ IF loaded = Nil
                THEN /\ report' = Some([mode |-> "resume", SessionID |-> id,
                                        outcome |-> "not-found", total |-> 0])
                     /\ pc' = "exit"
                     /\ UNCHANGED session
                ELSE IF Deref(loaded).IsCompleted
                THEN /\ report' = Some([mode |-> "resume", SessionID |-> id,
                                        outcome |-> "already-completed",
                                        total |-> Deref(loaded).TotalFetched])
                     /\ pc' = "exit"
                     /\ UNCHANGED session
                ELSE /\ report' = Some([mode |-> "resume", SessionID |-> id,
                                        outcome |-> "running",
                                        total |-> Deref(loaded).TotalFetched])
                     /\ session' = [SessionID     |-> id,
                                    Query         |-> Deref(loaded).Query,
                                    CurrentCursor |-> Deref(loaded).CurrentCursor,
                                    TotalFetched  |-> Deref(loaded).TotalFetched,
                                    IsCompleted   |-> FALSE]
                     /\ pc' = "fetch"
    /\ runs' = runs + 1
    /\ UNCHANGED <<dbVars, call, classifierVars, currentCursor, result, idx, iter,
                   fetchLog, upserted>>

\* fetchPage(query, cursor) returns a page.
SessionFetchPage ==
    /\ pc = "fetch"
    /\ PageAfterCursor(session.CurrentCursor) <= MaxPages
    /\ \E response \in SessionResponses(PageAfterCursor(session.CurrentCursor)) :
         /\ result' = response
         /\ fetchLog' = Append(fetchLog,
                               [session |-> session.SessionID,
                                request |-> [query |-> session.Query,
                                             after |-> session.CurrentCursor],
                                ok |-> TRUE, pageInfo |-> response.PageInfo])
    /\ idx' = 1
    /\ pc' = "range"
    /\ UNCHANGED <<dbVars, call, classifierVars, currentCursor, iter, session,
                   itemCap, runs, report, upserted>>

\* fetchPage fails: persist the record as it stands, exit asking to resume.
SessionFetchFails ==
    /\ pc = "fetch"
    /\ PageAfterCursor(session.CurrentCursor) <= MaxPages
    /\ fetchLog' = Append(fetchLog,
                          [session |-> session.SessionID,
                           request |-> [query |-> session.Query,
                                        after |-> session.CurrentCursor],
                           ok |-> FALSE, pageInfo |-> NoResult.PageInfo])
    /\ SaveProgress([session EXCEPT !.IsCompleted = FALSE])
    /\ clock' = clock + 1
    /\ session' = [session EXCEPT !.IsCompleted = FALSE]
    /\ report' = Some([mode |-> Deref(report).mode, SessionID |-> session.SessionID,
                       outcome |-> "halted", total |-> session.TotalFetched])
    /\ pc' = "exit"
    /\ UNCHANGED <<repositories, repoSeq, call, classifierVars, currentCursor, result,
                   idx, iter, itemCap, runs, upserted>>

\* For one candidate of the page: classify it, upsert it, count it.
SessionProcessRepository ==
    /\ pc = "range"
    /\ idx <= Len(result.Repositories)
    /\ \E classified \in ClassifierReturns, insertErr \in BOOLEAN :
         /\ ClassifyAndSave(result.Repositories[idx], classified, insertErr)
         /\ session' = IF insertErr THEN session
                       ELSE [session EXCEPT !.TotalFetched = @ + 1]
    /\ idx' = idx + 1
    /\ UNCHANGED <<search_states, stateSeq, call, classifierVars, pc, currentCursor,
                   result, fetchLog, itemCap, runs, report>>

CapReached(total, cap) == cap > 0 /\ total >= cap

\* After the last candidate: advance the cursor, decide completion, save.
SessionEndOfPage ==
    /\ pc = "range"
    /\ idx > Len(result.Repositories)
    /\ LET completed == \/ Exhausted(result.PageInfo)
                        \/ CapReached(session.TotalFetched, itemCap)
           state == [session EXCEPT !.CurrentCursor = result.PageInfo.EndCursor,
                                    !.IsCompleted = completed]
       IN  /\ session' = state
           /\ SaveProgress(state)
           /\ IF completed
              THEN /\ pc' = "exit"
                   /\ report' = Some([mode |-> Deref(report).mode,
                                      SessionID |-> session.SessionID,
                                      outcome |-> "completed",
                                      total |-> session.TotalFetched])
              ELSE /\ pc' = "fetch"
                   /\ UNCHANGED report
    /\ clock' = clock + 1
    /\ LoopLocalsDropped
    /\ UNCHANGED <<repositories, repoSeq, call, classifierVars, currentCursor,
                   fetchLog, itemCap, runs, upserted>>

NextSession ==
    \/ StartNew
    \/ Resume
    \/ SessionFetchPage
    \/ SessionFetchFails
    \/ SessionProcessRepository
    \/ SessionEndOfPage

SpecSession == InitOrchestrator /\ [][NextSession]_vars

(***************************************************************************)
(* Properties of the repository store.                                     *)
(***************************************************************************)
SameMutableFields(r, repo) ==
    /\ r.name_with_owner = repo.NameWithOwner
    /\ r.stargazer_count = repo.StargazerCount
    /\ r.primary_language = repo.PrimaryLanguage
    /\ r.has_dockerfile = repo.HasDockerfile

\* C1: after any sequence of InsertRepository calls the table holds exactly
\* one row per URL that was upserted and none for any other URL, and the row's
\* star count, name, language and marker flag are those of the most recent
\* successful upsert of that URL.
C1_OneRowPerURLWithLatestValues ==
    \A u \in URLs :
        IF upserted[u] = Nil
        THEN RowsOf(repositories, u) = {}
        ELSE /\ Cardinality(RowsOf(repositories, u)) = 1
             /\ \A r \in RowsOf(repositories, u) :
                    SameMutableFields(r, Deref(upserted[u]))

\* A URL has just been upserted a second time, with another star count.
C1_Witness ==
    /\ call.op = "InsertRepository"
    /\ ~call.err
    /\ \E old \in call.before : old.stargazer_count # call.arg.StargazerCount
    /\ \E r \in RowsOf(repositories, call.arg.URL) :
           r.stargazer_count = call.arg.StargazerCount

(***************************************************************************)
(* Properties of the classifier.                                           *)
(***************************************************************************)
\* c and d are the same letter up to case (d is lower case), or the same
\* character.
EqualFold(c, d) ==
    \/ c = d
    \/ \E k \in 1..Len(LowerCase) : LowerCase[k] = d /\ UpperCase[k] = c

\* name contains "dockerfile", ignoring case.
NamesDockerfile(name) ==
    \E i \in 1..Len(name) :
        /\ i + Len(dockerfile) - 1 <= Len(name)
        /\ \A j \in 1..Len(dockerfile) : EqualFold(name[i + j - 1], dockerfile[j])

MatchAtRoot(t) == \E i \in 1..Len(t) : NamesDockerfile(t[i].Name)

MatchInRootDirectory(t) ==
    \E i \in 1..Len(t) :
        /\ t[i].Type = "tree"
        /\ \E j \in 1..Len(t[i].Entries) : NamesDockerfile(t[i].Entries[j].Name)

MatchInRootFile(t) ==
    \E i \in 1..Len(t) :
        /\ t[i].Type # "tree"
        /\ \E j \in 1..Len(t[i].Entries) : NamesDockerfile(t[i].Entries[j].Name)

MatchBelow(t) ==
    \E i \in 1..Len(t) : \E j \in 1..Len(t[i].Entries) :
        \E k \in 1..Len(t[i].Entries[j].Entries) :
            NamesDockerfile(t[i].Entries[j].Entries[k].Name)

\* C6: HasDockerfile returns true exactly when a root entry's name contains
\* "dockerfile" (any case) or a direct child of a root entry of type tree
\* does; names deeper down and children of non-tree root entries do not count.
C6_HasDockerfileScansTwoLevels ==
    hasDockerfileRet # Nil =>
        Deref(hasDockerfileRet) = (MatchAtRoot(tree) \/ MatchInRootDirectory(tree))

\* HasDockerfile has returned false for a tree whose only matching names are
\* two levels below the root and under a root entry that is not a directory.
C6_Witness ==
    /\ hasDockerfileRet = Some(FALSE)
    /\ MatchBelow(tree)
    /\ MatchInRootFile(tree)

(***************************************************************************)
(* Properties of the session-progress store.                               *)
(***************************************************************************)
\* C10 as claimed: the stored total_fetched of a session never decreases.
C10_TotalNeverDecreases ==
    [][\A id \in SessionIDs :
         \A r \in StatesOf(search_states, id) :
           \A r2 \in StatesOf(search_states', id) :
              r2.total_fetched >= r.total_fetched]_vars

\* C10 amended: the stored total_fetched of a session changes only by a
\* successful SaveSearchState for that session, and then equals the total of
\* the record saved; so it never decreases while the saved totals do not.
C10_TotalChangesOnlyToSavedTotal ==
    [][\A id \in SessionIDs :
         \A r \in StatesOf(search_states, id) :
           \A r2 \in StatesOf(search_states', id) :
              r2.total_fetched # r.total_fetched =>
                 /\ call'.op = "SaveSearchState"
                 /\ ~call'.err
                 /\ call'.arg.SessionID = id
                 /\ r2.total_fetched = call'.arg.TotalFetched]_vars

\* A save has just replaced the stored total of an existing session by a
\* larger one.
C10_Witness ==
    /\ call.op = "SaveSearchState"
    /\ ~call.err
    /\ \E old \in call.before : old.total_fetched < call.arg.TotalFetched
    /\ \E r \in StatesOf(search_states, call.arg.SessionID) :
           r.total_fetched = call.arg.TotalFetched

(***************************************************************************)
(* Properties of the collection loop.                                      *)
(***************************************************************************)
\* The step just taken is one iteration of the range loop.
IsIteration == pc = "range" /\ idx' = idx + 1

\* C7: a classification failure does not abort the page.  In every
\* iteration that handles a repository (whatever failed in earlier
\* iterations) the loop stays in the page and moves to the next repository;
\* when the classification failed the marker flag is false; and unless the
\* save itself fails the repository is stored with the page's values and
\* that flag.  The range loop is left only after its last repository.
C7_ClassificationFailureIsolated ==
    [][/\ (IsIteration /\ iter'.kind = "handled") =>
            /\ pc' = "range"
            /\ iter'.repo = result.Repositories[idx]
            /\ iter'.classifyErr => ~iter'.hasDockerfile
            /\ ~iter'.insertErr =>
                  /\ Cardinality(RowsOf(repositories', iter'.repo.URL)) = 1
                  /\ \A r \in RowsOf(repositories', iter'.repo.URL) :
                        /\ r.has_dockerfile = iter'.hasDockerfile
                        /\ r.stargazer_count = iter'.repo.StargazerCount
                        /\ r.name_with_owner = iter'.repo.FullName
       /\ (pc = "range" /\ pc' # "range") => idx > Len(result.Repositories)
      ]_vars

\* The first repository of a two-repository page has just failed to
\* classify and is stored with marker flag false; the URL was stored before
\* with marker flag true; the second repository is still to be handled.
C7_Witness ==
    /\ pc = "range"
    /\ idx = 2
    /\ Len(result.Repositories) = 2
    /\ iter.kind = "handled"
    /\ iter.classifyErr
    /\ ~iter.insertErr
    /\ \E r \in RowsOf(repositories, iter.repo.URL) :
           ~r.has_dockerfile /\ r.updated_at > r.created_at

LastFetch == fetchLog[Len(fetchLog)]

SignalsMore(entry) ==
    entry.ok /\ entry.pageInfo.HasNextPage /\ entry.pageInfo.EndCursor # Nil

\* C9: hasNextPage = false and endCursor = null both end the run.  Every
\* page fetched before the last one reported hasNextPage = true and a
\* non-null end cursor; the run is about to fetch again only after such a
\* page; and it has completed only after a page that reported either
\* exhaustion signal.
C9_EitherSignalEndsTheRun ==
    /\ \A i \in 1..(Len(fetchLog) - 1) : SignalsMore(fetchLog[i])
    /\ (pc = "fetch" /\ fetchLog # <<>>) => SignalsMore(LastFetch)
    /\ pc = "done" => (fetchLog # <<>> /\ LastFetch.ok /\ ~SignalsMore(LastFetch))

\* The run has completed on a second page that reported hasNextPage = true
\* with a null end cursor.
C9_Witness ==
    /\ pc = "done"
    /\ Len(fetchLog) = 2
    /\ LastFetch.pageInfo.HasNextPage
    /\ LastFetch.pageInfo.EndCursor = Nil

(***************************************************************************)
(* Properties of the session orchestrator.                                 *)
(***************************************************************************)
\* Positions in fetchLog of the pages fetched successfully for session id.
PagesOf(id) ==
    {i \in 1..Len(fetchLog) : fetchLog[i].session = id /\ fetchLog[i].ok}

LastPageOf(id) == CHOOSE i \in PagesOf(id) : \A j \in PagesOf(id) : j <= i

\* The end cursor of the last page processed for session id (null if none).
LastGoodCursor(id) ==
    IF PagesOf(id) = {} THEN Nil ELSE fetchLog[LastPageOf(id)].pageInfo.EndCursor

\* The step just taken issued a page fetch.
IsFetch == Len(fetchLog') = Len(fetchLog) + 1

\* The step just taken started a run that resumes a session.
IsResume == runs' = runs + 1 /\ Deref(report').mode = "resume"

\* The step just taken ended the processing of a page.
IsEndOfPage == pc = "range" /\ pc' # "range"

BetweenPages(id) == ~(pc = "range" /\ session.SessionID = id)

IsSave == call'.op = "SaveSearchState" /\ ~call'.err

\* The step just taken is a LoadSearchState call that returned a nil error.
IsLoad == call'.op = "LoadSearchState" /\ ~call'.err

\* The step just taken is a DeleteSearchState call that returned nil.
IsDelete == call'.op = "DeleteSearchState" /\ ~call'.err

\* C11: the query stored for a session identifier is the one given by the
\* save that created its record, and it stays the same for as long as the
\* record exists, whatever query later saves carry; a load returns that
\* stored query.
C11_QueryFixedAtFirstSave ==
    [][\A id \in SessionIDs :
         /\ (StatesOf(search_states, id) = {} /\ StatesOf(search_states', id) # {}) =>
               /\ IsSave
               /\ call'.arg.SessionID = id
               /\ \A r2 \in StatesOf(search_states', id) : r2.query = call'.arg.Query
         /\ \A r \in StatesOf(search_states, id) :
               \A r2 \in StatesOf(search_states', id) : r2.query = r.query
         /\ (IsLoad /\ call'.arg = id /\ call'.ret # Nil) =>
               \A r \in StatesOf(search_states, id) : Deref(call'.ret).Query = r.query
      ]_vars

\* A save carrying another query has just been applied to an existing
\* session, and the stored query is still the old one.
C11_Witness ==
    /\ call.op = "SaveSearchState"
    /\ ~call.err
    /\ \E old \in call.before :
          /\ old.query # call.arg.Query
          /\ \E r \in StatesOf(search_states, call.arg.SessionID) :
                r.query = old.query /\ r.updated_at > old.updated_at

\* The stored fields of a table: every column but updated_at.
StoredFields(rows) ==
    {[id             |-> r.id,
      session_id     |-> r.session_id,
      query          |-> r.query,
      current_cursor |-> r.current_cursor,
      total_fetched  |-> r.total_fetched,
      is_completed   |-> r.is_completed,
      created_at     |-> r.created_at] : r \in rows}

\* Saving the record just saved once more leaves the stored fields that the
\* first save left.
SaveTwiceIsSaveOnce ==
    LET once  == search_states'
        twice == SaveSearchState(once, call'.arg, stateSeq' + 1, clock' + 1)
    IN  StoredFields(twice) = StoredFields(once)

\* What a successful save leaves for the cursor, total and completion flag,
\* and for the other sessions.
SaveStoresProgress ==
    /\ Cardinality(StatesOf(search_states', call'.arg.SessionID)) = 1
    /\ \A r2 \in StatesOf(search_states', call'.arg.SessionID) :
          /\ r2.current_cursor = call'.arg.CurrentCursor
          /\ r2.total_fetched = call'.arg.TotalFetched
          /\ r2.is_completed = call'.arg.IsCompleted
          /\ r2.updated_at = clock'
    /\ \A other \in SessionIDs \ {call'.arg.SessionID} :
          StatesOf(search_states', other) = StatesOf(search_states, other)

\* C12 as claimed: a successful save leaves exactly one record for its
\* identifier whose cursor, total, completion flag and query are those of the
\* record given, for a new identifier and for an existing one alike, and
\* saving the same record twice is saving it once.
C12_SaveReplacesAllFields ==
    [][IsSave =>
            /\ SaveStoresProgress
            /\ \A r2 \in StatesOf(search_states', call'.arg.SessionID) :
                  r2.query = call'.arg.Query
            /\ SaveTwiceIsSaveOnce
      ]_vars

\* C12 amended: a successful save leaves exactly one record for its
\* identifier whose cursor, total and completion flag are those of the
\* record given and whose updated_at is refreshed; the query is the given one
\* when the identifier is new and stays the stored one (with id and
\* created_at) when the identifier exists; the records of other identifiers
\* are unchanged; saving the same record twice is saving it once.
C12_SaveReplacesProgressKeepsQuery ==
    [][IsSave =>
            /\ SaveStoresProgress
            /\ \A r2 \in StatesOf(search_states', call'.arg.SessionID) :
                  IF StatesOf(search_states, call'.arg.SessionID) = {}
                  THEN /\ r2.query = call'.arg.Query
                       /\ r2.created_at = clock'
                  ELSE \A r \in StatesOf(search_states, call'.arg.SessionID) :
                          /\ r2.query = r.query
                          /\ r2.id = r.id
                          /\ r2.created_at = r.created_at
            /\ SaveTwiceIsSaveOnce
      ]_vars

\* A save has just replaced the cursor, total and completion flag of an
\* existing session while carrying another query than the stored one.
C12_Witness ==
    /\ call.op = "SaveSearchState"
    /\ ~call.err
    /\ \E old \in call.before :
          /\ old.query # call.arg.Query
          /\ old.current_cursor # call.arg.CurrentCursor
          /\ old.total_fetched # call.arg.TotalFetched
          /\ old.is_completed # call.arg.IsCompleted
    /\ \E r \in StatesOf(search_states, call.arg.SessionID) :
          /\ r.current_cursor = call.arg.CurrentCursor
          /\ r.total_fetched = call.arg.TotalFetched
          /\ r.is_completed = call.arg.IsCompleted

\* The cursor, total and completion flag of a row.
Progress(r) == <<r.current_cursor, r.total_fetched, r.is_completed>>

\* C13: a load never modifies the store.  A load that returns no error
\* returns nil exactly when the identifier has no record, and otherwise the
\* stored record, column by column, a NULL cursor as a nil pointer.  The
\* stored cursor, total and completion flag are those of the latest
\* successful save: they change only by such a save, to the values given.
C13_LoadReturnsStoredRecord ==
    [][/\ call'.op = "LoadSearchState" => dbVars' = dbVars
       /\ IsLoad =>
            /\ call'.ret = Nil <=> StatesOf(search_states, call'.arg) = {}
            /\ \A r \in StatesOf(search_states, call'.arg) :
                  /\ call'.ret # Nil
                  /\ Deref(call'.ret).ID = r.id
                  /\ Deref(call'.ret).SessionID = r.session_id
                  /\ Deref(call'.ret).Query = r.query
                  /\ Deref(call'.ret).CurrentCursor = r.current_cursor
                  /\ Deref(call'.ret).TotalFetched = r.total_fetched
                  /\ Deref(call'.ret).IsCompleted = r.is_completed
                  /\ Deref(call'.ret).CreatedAt = r.created_at
                  /\ Deref(call'.ret).UpdatedAt = r.updated_at
       /\ \A id \in SessionIDs :
            \A r2 \in StatesOf(search_states', id) :
               (\A r \in StatesOf(search_states, id) : Progress(r2) # Progress(r)) =>
                  /\ IsSave
                  /\ call'.arg.SessionID = id
                  /\ Progress(r2) = <<call'.arg.CurrentCursor, call'.arg.TotalFetched,
                                      call'.arg.IsCompleted>>
      ]_vars

\* A session saved twice, the second time with a null cursor and another
\* total, has just been loaded: the record returned has no cursor.
C13_Witness ==
    /\ call.op = "LoadSearchState"
    /\ ~call.err
    /\ call.ret # Nil
    /\ Deref(call.ret).CurrentCursor = Nil
    /\ Deref(call.ret).TotalFetched > 0
    /\ Deref(call.ret).UpdatedAt > Deref(call.ret).CreatedAt
    /\ Cardinality(search_states) = 1

\* C14: a delete that returns no error leaves no record for its identifier,
\* so that a load of it finds nothing; the records of all other identifiers
\* are as before, also when the identifier had no record; a delete that
\* returns an error changes nothing.
C14_DeleteRemovesOnlyItsRecord ==
    [][/\ IsDelete =>
            /\ StatesOf(search_states', call'.arg) = {}
            /\ LoadSearchState(search_states', call'.arg) = Nil
            /\ \A other \in SessionIDs \ {call'.arg} :
                  /\ StatesOf(search_states', other) = StatesOf(search_states, other)
                  /\ LoadSearchState(search_states', other)
                        = LoadSearchState(search_states, other)
            /\ StatesOf(search_states, call'.arg) = {} => search_states' = search_states
       /\ (call'.op = "DeleteSearchState" /\ call'.err) => search_states' = search_states
      ]_vars

\* One of two stored sessions has just been deleted; the other is still
\* stored.
C14_Witness ==
    /\ call.op = "DeleteSearchState"
    /\ ~call.err
    /\ call.before # {}
    /\ StatesOf(search_states, call.arg) = {}
    /\ Cardinality(search_states) = 1

(***************************************************************************)
(* Frame of an upsert.                                                     *)
(***************************************************************************)
\* The step just taken is an InsertRepository call that returned nil.
IsUpsert == call'.op = "InsertRepository" /\ ~call'.err

\* C15: an upsert of a URL that already has a record leaves exactly that one
\* record for the URL, with the id, URL and created_at it had and with
\* updated_at set to the time of the upsert; the records of all other URLs
\* are unchanged by any upsert.
C15_UpsertKeepsIdentityAndOtherRows ==
    [][IsUpsert =>
          /\ RowsOf(repositories, call'.arg.URL) # {} =>
                /\ Cardinality(RowsOf(repositories', call'.arg.URL)) = 1
                /\ \A r \in RowsOf(repositories, call'.arg.URL) :
                      \A r2 \in RowsOf(repositories', call'.arg.URL) :
                         /\ r2.id = r.id
                         /\ r2.url = r.url
                         /\ r2.created_at = r.created_at
                         /\ r2.updated_at = clock'
                         /\ r2.updated_at >= r.updated_at
          /\ \A u \in URLs \ {call'.arg.URL} :
                RowsOf(repositories', u) = RowsOf(repositories, u)
      ]_vars

\* A URL stored first, before another URL was stored, has just been upserted
\* again: its record has its first id and a later updated_at, and the other
\* URL's record is there.
C15_Witness ==
    /\ call.op = "InsertRepository"
    /\ ~call.err
    /\ call.before # {}
    /\ \E r \in RowsOf(repositories, call.arg.URL) :
          /\ r \notin call.before
          /\ r.updated_at > r.created_at
          /\ \E o \in repositories : o.url # r.url /\ o.id > r.id

(***************************************************************************)
(* Properties of the collection loop: cursors, pages, failed saves.        *)
(***************************************************************************)
\* The cursor a logged request sent in its "after" variable.
SentCursor(entry) == entry.request.after

\* The request the step just taken sent.
NewFetch == fetchLog'[Len(fetchLog')]

\* The step just taken moved currentCursor past the page being processed.
CursorAdvanced == pc = "range" /\ pc' = "fetch"

\* C16 as claimed: every cursor sent to the search API is null, for a fetch
\* from the start of the result set, or a continuation token that an earlier
\* page returned; no other value is ever sent.
C16_OnlyNullOrReturnedCursorsSent ==
    \A i \in 1..Len(fetchLog) :
        \/ SentCursor(fetchLog[i]) = Nil
        \/ \E j \in 1..(i - 1) :
              /\ fetchLog[j].ok
              /\ fetchLog[j].pageInfo.EndCursor # Nil
              /\ fetchLog[j].pageInfo.EndCursor = SentCursor(fetchLog[i])

\* C17 as claimed: whenever the cursor is advanced past a page, every
\* repository of that page has a record in the repository store.
C17_AdvancedPageIsFullyStored ==
    [][CursorAdvanced =>
          \A i \in 1..Len(result.Repositories) :
              RowsOf(repositories, result.Repositories[i].URL) # {}]_vars

\* C17 amended: the cursor is advanced past a page only after the range loop
\* has gone through every repository of the page, and the advance itself
\* writes nothing to the store; an iteration whose save returns nil leaves
\* the repository's record in the store and no step ever removes a URL's
\* record, so every repository of the page whose save succeeded is stored
\* when the cursor advances (the last one handled is checked at that step);
\* an iteration that skips the repository or whose save fails leaves the
\* store as it was, and the cursor advances all the same.
C17_CursorAdvancesAfterPageHandled ==
    [][/\ CursorAdvanced =>
            /\ idx > Len(result.Repositories)
            /\ currentCursor' = Deref(result.PageInfo.EndCursor)
            /\ repositories' = repositories
            /\ (iter.kind = "handled" /\ ~iter.insertErr) =>
                  \E r \in RowsOf(repositories, iter.repo.URL) :
                      SameMutableFields(r, DbRepo(iter.repo, iter.hasDockerfile))
       /\ currentCursor' # currentCursor => CursorAdvanced
       /\ (IsIteration /\ iter'.kind = "handled" /\ ~iter'.insertErr) =>
            \E r \in RowsOf(repositories', iter'.repo.URL) :
                SameMutableFields(r, DbRepo(iter'.repo, iter'.hasDockerfile))
       /\ (IsIteration /\ (iter'.kind = "skipped" \/ iter'.insertErr)) =>
            repositories' = repositories
       /\ \A u \in URLs : RowsOf(repositories, u) # {} => RowsOf(repositories', u) # {}
      ]_vars

\* The cursor has advanced past the first page and both repositories are
\* stored.
C17_Witness ==
    /\ pc = "fetch"
    /\ Len(fetchLog) = 1
    /\ currentCursor = Tokens[1]
    /\ \A u \in URLs : RowsOf(repositories, u) # {}

\* C18 as claimed: every iteration of the range loop classifies the
\* repository at its position and passes it to the save; none is left out.
C18_EveryCandidateClassifiedAndUpserted ==
    [][IsIteration =>
          /\ iter'.kind = "handled"
          /\ iter'.repo = result.Repositories[idx]]_vars

\* C19: an iteration whose save fails leaves the whole store as it was,
\* stays in the page and moves on to the next repository without a second
\* try and without a fetch; every later iteration of the page classifies and
\* saves as usual; and what happens at the end of the page depends on the
\* page's pageInfo alone: the run completes if it signals exhaustion, else
\* currentCursor becomes its end cursor and the next page is fetched.
C19_FailedUpsertSkipsOnlyThatRepository ==
    [][/\ (IsIteration /\ iter'.kind = "handled" /\ iter'.insertErr) =>
            /\ repositories' = repositories
            /\ repoSeq' = repoSeq
            /\ pc' = "range"
            /\ idx' = idx + 1
            /\ result' = result
            /\ fetchLog' = fetchLog
            /\ currentCursor' = currentCursor
       /\ (IsIteration /\ iter'.kind = "handled" /\ ~iter'.insertErr) =>
            /\ iter'.repo = result.Repositories[idx]
            /\ \E r \in RowsOf(repositories', iter'.repo.URL) :
                  SameMutableFields(r, DbRepo(iter'.repo, iter'.hasDockerfile))
            /\ \A u \in URLs \ {iter'.repo.URL} :
                  RowsOf(repositories', u) = RowsOf(repositories, u)
       /\ (pc = "range" /\ idx <= Len(result.Repositories)) => IsIteration
       /\ (pc = "range" /\ idx > Len(result.Repositories)) =>
            IF Exhausted(result.PageInfo)
            THEN pc' = "done" /\ currentCursor' = currentCursor
            ELSE pc' = "fetch" /\ currentCursor' = Deref(result.PageInfo.EndCursor)
      ]_vars

\* On a page of two repositories the save of the first failed (its URL has
\* no record) and the second has just been saved.
C19_Witness ==
    /\ pc = "range"
    /\ Len(fetchLog) = 1
    /\ Len(result.Repositories) = 2
    /\ idx = 3
    /\ Len(SplitParts(result.Repositories[1].FullName, "/")) = 2
    /\ RowsOf(repositories, result.Repositories[1].URL) = {}
    /\ iter.kind = "handled"
    /\ ~iter.insertErr
    /\ RowsOf(repositories, result.Repositories[2].URL) # {}
    /\ SignalsMore(LastFetch)

\* C20: pages are fetched one at a time and in cursor order.  A fetch is
\* issued only at the top of the loop; every fetch but the first follows a
\* page that was returned, and sends exactly the end cursor that page
\* returned; a fetched page is gone through from its first repository, one
\* repository per iteration, and the loop comes back to the top only after
\* the last one.
C20_PagesFetchedInCursorOrder ==
    [][/\ IsFetch =>
            /\ pc = "fetch"
            /\ fetchLog' = Append(fetchLog, NewFetch)
            /\ fetchLog # <<>> =>
                  /\ LastFetch.ok
                  /\ SignalsMore(LastFetch)
                  /\ SentCursor(NewFetch) = LastFetch.pageInfo.EndCursor
            /\ NewFetch.ok => (pc' = "range" /\ idx' = 1)
       /\ fetchLog' # fetchLog => IsFetch
       /\ (pc = "range" /\ pc' = "range") => (idx' = idx + 1 /\ result' = result)
       /\ (pc = "range" /\ pc' # "range") => idx > Len(result.Repositories)
      ]_vars

\* Three pages have been fetched, the second with the first page's end
\* cursor and the third with the second's, and repositories were saved.
C20_Witness ==
    /\ Len(fetchLog) = 3
    /\ \A i \in 1..3 : fetchLog[i].ok
    /\ SentCursor(fetchLog[2]) = Some(Tokens[1])
    /\ SentCursor(fetchLog[3]) = Some(Tokens[2])
    /\ fetchLog[1].pageInfo.EndCursor = Some(Tokens[1])
    /\ fetchLog[2].pageInfo.EndCursor = Some(Tokens[2])
    /\ repositories # {}

(***************************************************************************)
(* The marker flag over repeated observations.                             *)
(***************************************************************************)
\* The step just taken handled a repository: classified it and called the
\* save.
IsObservation == IsIteration /\ iter'.kind = "handled"

\* C21 as claimed: after every observation of a URL the marker flag stored
\* for it is the result of that observation (false when the classification
\* failed).
C21_StoredFlagIsLatestObservation ==
    [][IsObservation =>
          \A r \in RowsOf(repositories', iter'.repo.URL) :
              r.has_dockerfile = iter'.hasDockerfile]_vars

\* C21 amended: the marker flag stored for a URL is the result of its most
\* recent observation whose save succeeded, a classification error counting
\* as false.  Such an observation leaves the URL's record with its result,
\* whatever flag was stored before; an observation whose save fails leaves
\* the stored flag as it was; and the stored flag of a URL changes in no
\* other step.
C21_StoredFlagIsLatestSavedObservation ==
    [][/\ IsObservation =>
            /\ iter'.classifyErr => ~iter'.hasDockerfile
            /\ iter'.flagBefore = StoredFlags(repositories, iter'.repo.URL)
            /\ IF iter'.insertErr
               THEN StoredFlags(repositories', iter'.repo.URL) = iter'.flagBefore
               ELSE /\ StoredFlags(repositories', iter'.repo.URL) = {iter'.hasDockerfile}
                    /\ upserted'[iter'.repo.URL] # Nil
                    /\ Deref(upserted'[iter'.repo.URL]).HasDockerfile = iter'.hasDockerfile
       /\ \A u \in URLs :
            StoredFlags(repositories', u) # StoredFlags(repositories, u) =>
               /\ IsObservation
               /\ ~iter'.insertErr
               /\ iter'.repo.URL = u
       /\ \A u \in URLs :
            upserted[u] # Nil =>
               StoredFlags(repositories, u) = {Deref(upserted[u]).HasDockerfile}
      ]_vars

\* A repository stored with marker flag true has just been observed again
\* with a failing classification, and is now stored with marker flag false.
C21_Witness ==
    /\ pc = "range"
    /\ iter.kind = "handled"
    /\ iter.classifyErr
    /\ ~iter.insertErr
    /\ iter.flagBefore = {TRUE}
    /\ StoredFlags(repositories, iter.repo.URL) = {FALSE}

=============================================================================
